---------------------------- MODULE Spec2Model ----------------------------
(***************************************************************************)
(* Model of the energy-based elastic-constant workflow of atomate:         *)
(*   - wf_elastic_constant   (vasp/workflows/presets/core_elastic.py)      *)
(*   - ElasticTensorToDb     (vasp/firetasks/parse_outputs_elastic.py)     *)
(*                                                                         *)
(* Python dicts are functions whose DOMAIN is the set of keys present, so  *)
(* that dict.get(key, default), a missing key and dict.update are what     *)
(* they are in the code.  A dict that keeps insertion order and is read    *)
(* through .values() is a sequence of [key, value] items.                  *)
(* Tensors are [rank, v] with v a matrix of integers; strings that the     *)
(* code searches are sequences of characters.                              *)
(***************************************************************************)
EXTENDS Integers, Sequences, FiniteSets, TLC

VARIABLES
    task,        \* the ElasticTensorToDb instance (self): its parameters
    fw_spec,     \* the fw_spec handed to run_task
    pc,          \* position of run_task
    d,           \* run_task: the document d
    ref_struct,  \* run_task: ref_struct
    eq_stress,   \* run_task: eq_stress
    energies,    \* run_task: energies
    strains,     \* run_task: strains
    deformations,\* run_task: deformations
    results,     \* run_task: results
    outcome,     \* run_task: what the call returned or raised
    call,        \* wf_elastic_constant: the arguments of the call
    settings,    \* wf_elastic_constant: uis_optimize, uis_static, kpts_settings, stencils
    elastic_call,\* wf_elastic_constant: arguments handed to get_wf_elastic_constant
    wf,          \* wf_elastic_constant: the workflow under construction / returned
    build,       \* wf_elastic_constant: position / outcome of the call
    fw_state,    \* engine: state of every firework of the workflow
    dispatched   \* engine: deformation calculations created for the workflow

vars == <<task, fw_spec, pc, d, ref_struct, eq_stress, energies, strains,
          deformations, results, outcome, call, settings, elastic_call, wf,
          build, fw_state, dispatched>>

taskVars == <<task, fw_spec, pc, d, ref_struct, eq_stress, energies, strains,
              deformations, results, outcome>>

buildVars == <<call, settings, elastic_call, wf, build>>

(***************************************************************************)
(* Bounds of the model.                                                    *)
(***************************************************************************)
MaxDefo == 2        \* entries of fw_spec["deformation_tasks"]
MaxSymmops == 2     \* symmetry operations of one entry
MaxCalcLocs == 3    \* entries of fw_spec["calc_locs"]
NumDeformations == 2 \* deformation fireworks of the sub-workflow

(***************************************************************************)
(* Python values.                                                          *)
(***************************************************************************)
None == [isNone |-> TRUE]

EmptyDict == [k \in {} |-> None]

Get(dict, key, default) == IF key \in DOMAIN dict THEN dict[key] ELSE default

Update(dict, other) == other @@ dict

Last(s) == s[Len(s)]

RECURSIVE SeqsUpTo(_, _)
SeqsUpTo(S, n) ==
    IF n = 0 THEN {<<>>}
    ELSE LET shorter == SeqsUpTo(S, n - 1)
         IN shorter \cup {Append(s, e) : s \in {t \in shorter : Len(t) = n - 1}, e \in S}

(***************************************************************************)
(* Strings the code searches: the name of a calculation location.          *)
(***************************************************************************)
Marker == <<"o","p","t","i","m","i","z">>

NameElasticOptimization ==
    <<"e","l","a","s","t","i","c"," ","s","t","r","u","c","t","u","r","e"," ",
      "o","p","t","i","m","i","z","a","t","i","o","n">>

NameOptimize == <<"o","p","t","i","m","i","z","e">>

NameOptimal == <<"o","p","t","i","m","a","l">>

NameStatic == <<"s","t","a","t","i","c">>

InPrefixOnly(sub, str) ==
    \E i \in 0..(Len(str) - 5) :
        \A j \in 1..5 : str[i + j] = sub[j]

\* sub in str, line 49
In(sub, str) ==
    \E i \in 0..(Len(str) - Len(sub)) :
        \A j \in 1..Len(sub) : str[i + j] = sub[j]

(***************************************************************************)
(* Tensors (pymatgen Tensor / SquareTensor as the task uses them).         *)
(***************************************************************************)
Idx == 1..3

Matrix(rows) == [rank |-> 2, v |-> rows]

Scalar(x) == [rank |-> 0, v |-> <<<<x>>>>]

\* SquareTensor.__new__: the input must be of rank 2, or ValueError
SquareTensor(x) ==
    IF x.rank = 2 THEN [ok |-> TRUE, t |-> x] ELSE [ok |-> FALSE]

Stress(x) == SquareTensor(x)

Strain(x) == SquareTensor(x)

Deformation(x) == SquareTensor(x)

Sum3(f) == f[1] + f[2] + f[3]

\* Tensor.transform(symmop): t'[a][b] = sum R[a][c] R[b][e] t[c][e]
Transform(t, symmop) ==
    Matrix([a \in Idx |-> [b \in Idx |->
        Sum3([c \in Idx |-> Sum3([e \in Idx |->
            symmop[a][c] * symmop[b][e] * t.v[c][e]])])]])

\* -0.1 * t, line 63; the entries of the result count tenths
ScaleNegTenth(t) ==
    [rank |-> 2, unit |-> "tenth", v |-> [a \in Idx |-> [b \in Idx |-> (-1) * t.v[a][b]]]]

(***************************************************************************)
(* Structures and the calculation directories the drone parses.            *)
(***************************************************************************)
StructInput == [cls |-> "Structure", cell |-> "input"]

StructRelaxedA == [cls |-> "Structure", cell |-> "relaxed_a"]

StructRelaxedB == [cls |-> "Structure", cell |-> "relaxed_b"]

StructRelaxedC == [cls |-> "Structure", cell |-> "relaxed_c"]

AsDict(s) == [module |-> "pymatgen", class |-> s.cls, cell |-> s.cell]

FromDict(sd) == [cls |-> sd.class, cell |-> sd.cell]

StressIso == Matrix(<<<<1, 0, 0>>, <<0, 1, 0>>, <<0, 0, 1>>>>)

StressShear == Matrix(<<<<4, -2, 0>>, <<-2, 5, 0>>, <<0, 0, 6>>>>)

StressFirstStep == Matrix(<<<<30, 0, 0>>, <<0, 30, 0>>, <<0, 0, 30>>>>)

Calc(s, stresses) ==
    [output |-> [structure |-> AsDict(s),
                 ionic_steps |-> [i \in 1..Len(stresses) |-> [stress |-> stresses[i]]]]]

\* VaspDrone.assimilate(path): the task document of the directory at path.
\* calcs_reversed lists the calculations of the directory, the latest first.
Assimilate(path) ==
    CASE path = "/launch/opt_a" ->
            [calcs_reversed |-> <<Calc(StructRelaxedA, <<StressFirstStep, StressIso>>)>>]
      [] path = "/launch/opt_b" ->
            [calcs_reversed |-> <<Calc(StructRelaxedB, <<StressFirstStep, StressShear>>),
                                  Calc(StructRelaxedC, <<StressIso>>)>>]
      [] OTHER ->
            [calcs_reversed |-> <<Calc(StructInput, <<StressFirstStep>>)>>]

(***************************************************************************)
(* ElasticTensorToDb.run_task, one operator per stage of the method.       *)
(***************************************************************************)
\* self.get(name) is falsy when the parameter was not given
Given(self, name) == name \in DOMAIN self

CalcLocsOptFirstOnly(spec) ==
    LET opt == SelectSeq(Get(spec, "calc_locs", <<>>), LAMBDA cl : In(Marker, cl.name))
    IN  IF opt = <<>> THEN opt ELSE <<opt[1]>>

\* lines 48-50
CalcLocsOpt(spec) ==
    SelectSeq(Get(spec, "calc_locs", <<>>), LAMBDA cl : In(Marker, cl.name))

\* lines 44-67
ResolveReference(self, spec) ==
    LET d0 == [analysis |-> EmptyDict, initial_structure |-> AsDict(self.structure)]
        calc_locs_opt == CalcLocsOpt(spec)
    IN  IF calc_locs_opt # <<>>
        THEN LET optimize_loc == Last(calc_locs_opt).path
                 optimize_doc == Assimilate(optimize_loc)
                 opt_struct == FromDict(optimize_doc.calcs_reversed[1].output.structure)
             IN  [d |-> Update(d0, [optimized_structure |-> AsDict(opt_struct)]),
                  ref_struct |-> opt_struct,
                  eq_stress |-> ScaleNegTenth(
                      Stress(Last(optimize_doc.calcs_reversed[1].output.ionic_steps).stress).t)]
        ELSE [d |-> d0, ref_struct |-> self.structure, eq_stress |-> None]

\* lines 69-72
CopySpecField(self, spec, doc) ==
    IF Given(self, "fw_spec_field")
    THEN Update(doc, self.fw_spec_field :> Get(spec, self.fw_spec_field, None))
    ELSE doc

Values(dict) == [i \in 1..Len(dict) |-> dict[i].value]

Raised(acc, error) == [acc EXCEPT !.raised = error]

\* lines 82-87: the derived records of one deformation result
RECURSIVE ExpandSymmops(_, _, _)
ExpandSymmops(acc, defo_dict, symmops) ==
    IF symmops = <<>> \/ acc.raised # "" THEN acc
    ELSE LET symmop == Head(symmops)
             en == Stress(defo_dict.energy)
             st == Strain(defo_dict.strain)
             de == Deformation(defo_dict.deformation_matrix)
         IN  IF ~en.ok THEN Raised(acc, "ValueError")
             ELSE LET acc1 == [acc EXCEPT !.energies = Append(@, Transform(en.t, symmop))]
                  IN  IF ~st.ok THEN Raised(acc1, "ValueError")
                      ELSE LET acc2 == [acc1 EXCEPT
                                           !.strains = Append(@, Transform(st.t, symmop))]
                           IN  IF ~de.ok THEN Raised(acc2, "ValueError")
                               ELSE ExpandSymmops(
                                        [acc2 EXCEPT !.deformations =
                                            Append(@, Transform(de.t, symmop))],
                                        defo_dict, Tail(symmops))

\* lines 77-87: the loop over the deformation results
RECURSIVE ExpandLoop(_, _)
ExpandLoop(acc, defo_dicts) ==
    IF defo_dicts = <<>> \/ acc.raised # "" THEN acc
    ELSE LET defo_dict == Head(defo_dicts)
             en == Stress(defo_dict.energy)
             st == Strain(defo_dict.strain)
             de == Deformation(defo_dict.deformation_matrix)
         IN  IF ~en.ok THEN Raised(acc, "ValueError")
             ELSE LET acc1 == [acc EXCEPT !.energies = Append(@, en.t)]
                  IN  IF ~st.ok THEN Raised(acc1, "ValueError")
                      ELSE LET acc2 == [acc1 EXCEPT !.strains = Append(@, st.t)]
                           IN  IF ~de.ok THEN Raised(acc2, "ValueError")
                               ELSE ExpandLoop(
                                        ExpandSymmops(
                                            [acc2 EXCEPT !.deformations = Append(@, de.t)],
                                            defo_dict, Get(defo_dict, "symmops", <<>>)),
                                        Tail(defo_dicts))

ExpandSymmetryReducedOnly(spec) ==
    LET acc0 == [energies |-> <<>>, strains |-> <<>>, deformations |-> <<>>, raised |-> ""]
    IN  IF "deformation_tasks" \notin DOMAIN spec
        THEN Raised(acc0, "KeyError")
        ELSE ExpandLoop(acc0, SelectSeq(Values(spec["deformation_tasks"]),
                                        LAMBDA r : "symmops" \in DOMAIN r))

\* lines 74-87
ExpandSymmetry(spec) ==
    LET acc0 == [energies |-> <<>>, strains |-> <<>>, deformations |-> <<>>, raised |-> ""]
    IN  IF "deformation_tasks" \notin DOMAIN spec
        THEN Raised(acc0, "KeyError")
        ELSE ExpandLoop(acc0, Values(spec["deformation_tasks"]))

FitResultsByMethod(self, en, st, de) ==
    [energies |-> en, strains |-> st, deformations |-> de,
     elastic_tensor |-> IF Given(self, "fitting_method")
                        THEN [fitted_by |-> self.fitting_method] ELSE None]

\* lines 91-96
FitResults(self, en, st, de) ==
    [energies |-> en, strains |-> st, deformations |-> de, elastic_tensor |-> None]

\* line 106
FWAction == [returned |-> "FWAction", stored_data |-> EmptyDict, update_spec |-> EmptyDict]

Pending == [returned |-> "pending"]

Raise(error) == [returned |-> "raised", error |-> error]

\* what a whole call of run_task leaves behind
RunTaskResult(self, spec) ==
    LET ref == ResolveReference(self, spec)
        doc == CopySpecField(self, spec, ref.d)
        ex == ExpandSymmetry(spec)
    IN  IF ex.raised # ""
        THEN [d |-> doc, results |-> None, outcome |-> Raise(ex.raised)]
        ELSE [d |-> doc,
              results |-> FitResults(self, ex.energies, ex.strains, ex.deformations),
              outcome |-> FWAction]

(***************************************************************************)
(* The steps of run_task.                                                  *)
(***************************************************************************)
Resolve ==
    /\ pc = "resolve"
    /\ LET ref == ResolveReference(task, fw_spec)
       IN  /\ d' = ref.d
           /\ ref_struct' = ref.ref_struct
           /\ eq_stress' = ref.eq_stress
    /\ pc' = "spec_field"
    /\ UNCHANGED <<task, fw_spec, energies, strains, deformations, results, outcome>>
    /\ UNCHANGED <<call, settings, elastic_call, wf, build, fw_state, dispatched>>

SpecField ==
    /\ pc = "spec_field"
    /\ d' = CopySpecField(task, fw_spec, d)
    /\ pc' = "expand"
    /\ UNCHANGED <<task, fw_spec, ref_struct, eq_stress, energies, strains,
                   deformations, results, outcome>>
    /\ UNCHANGED <<call, settings, elastic_call, wf, build, dispatched>>
    /\ UNCHANGED fw_state

Expand ==
    /\ pc = "expand"
    /\ LET ex == ExpandSymmetry(fw_spec)
       IN  /\ energies' = ex.energies
           /\ strains' = ex.strains
           /\ deformations' = ex.deformations
           /\ IF ex.raised # ""
              THEN /\ pc' = "done"
                   /\ outcome' = Raise(ex.raised)
              ELSE /\ pc' = "analyze"
                   /\ outcome' = outcome
    /\ UNCHANGED <<task, fw_spec, d, ref_struct, eq_stress, results>>
    /\ UNCHANGED <<call, settings, elastic_call, wf, build, dispatched>>
    /\ UNCHANGED fw_state

Analyze ==
    /\ pc = "analyze"
    /\ results' = FitResults(task, energies, strains, deformations)
    /\ outcome' = FWAction
    /\ pc' = "done"
    /\ UNCHANGED <<task, fw_spec, d, ref_struct, eq_stress, energies, strains, deformations>>
    /\ UNCHANGED <<call, settings, elastic_call, wf, build, dispatched>>
    /\ UNCHANGED fw_state


(***************************************************************************)
(* Inputs of run_task.                                                     *)
(***************************************************************************)
RotZ90 == <<<<0, -1, 0>>, <<1, 0, 0>>, <<0, 0, 1>>>>

MirrorX == <<<<-1, 0, 0>>, <<0, 1, 0>>, <<0, 0, 1>>>>

SymmOps == {RotZ90, MirrorX}

EnergyTensor == Matrix(<<<<1, 2, 0>>, <<0, 3, 0>>, <<0, 0, 4>>>>)

EnergyTensor2 == Matrix(<<<<5, 0, 1>>, <<0, 5, 0>>, <<1, 0, 2>>>>)

EnergyScalar == Scalar(7)

\* deformation matrices in 1/1000, strains in 1/1000
DefoNormal == Matrix(<<<<1010, 0, 0>>, <<0, 1000, 0>>, <<0, 0, 1000>>>>)

StrainNormal == Matrix(<<<<10, 0, 0>>, <<0, 0, 0>>, <<0, 0, 0>>>>)

DefoShear == Matrix(<<<<1000, 20, 0>>, <<0, 1000, 0>>, <<0, 0, 1000>>>>)

StrainShear == Matrix(<<<<0, 10, 0>>, <<10, 0, 0>>, <<0, 0, 0>>>>)

Computed ==
    {[energy |-> EnergyTensor, strain |-> StrainNormal, deformation_matrix |-> DefoNormal],
     [energy |-> EnergyTensor2, strain |-> StrainShear, deformation_matrix |-> DefoShear],
     [energy |-> EnergyScalar, strain |-> StrainNormal, deformation_matrix |-> DefoNormal]}

\* a key that is absent, or present with one of the values
Optional(key, values) == {EmptyDict} \cup {key :> v : v \in values}

\* lists of symmetry operations: the two operations in turn, from either one
SymmopLists ==
    {[i \in 1..n |-> IF i % 2 = 1 THEN g ELSE CHOOSE h \in SymmOps : h # g] :
        g \in SymmOps, n \in 0..MaxSymmops}

\* the deformation results: with or without the symmops key
DefoDicts == {sy @@ c : c \in Computed, sy \in Optional("symmops", SymmopLists)}

AsItems(values) == [i \in 1..Len(values) |-> [key |-> i - 1, value |-> values[i]]]

DeformationTasksAll == {AsItems(s) : s \in SeqsUpTo(DefoDicts, MaxDefo)}

DeformationTasksFew ==
    {<<>>,
     AsItems(<<[energy |-> EnergyTensor, strain |-> StrainNormal,
                deformation_matrix |-> DefoNormal, symmops |-> <<RotZ90>>]>>)}

CalcLocEntries ==
    {[name |-> NameElasticOptimization, path |-> "/launch/opt_a"],
     [name |-> NameOptimize, path |-> "/launch/opt_b"],
     [name |-> NameOptimal, path |-> "/launch/opt_b"],
     [name |-> NameStatic, path |-> "/launch/static"]}

CalcLocsAll == SeqsUpTo(CalcLocEntries, MaxCalcLocs)

CalcLocsFew ==
    {<<[name |-> NameStatic, path |-> "/launch/static"],
       [name |-> NameElasticOptimization, path |-> "/launch/opt_a"]>>}

FwSpecs(calc_locs, deformation_tasks) ==
    {cl @@ dt @@ tg :
        cl \in Optional("calc_locs", calc_locs),
        dt \in Optional("deformation_tasks", deformation_tasks),
        tg \in Optional("tags", {<<"elastic">>})}

TasksAll ==
    {[structure |-> StructInput] @@ o @@ m @@ f :
        o \in Optional("order", {2, 3}),
        m \in Optional("fitting_method", {"independent", "pseudoinverse", "finite_difference"}),
        f \in Optional("fw_spec_field", {"tags", "optimized_structure"})}

TasksFew ==
    {[structure |-> StructInput],
     [structure |-> StructInput, order |-> 3, fitting_method |-> "independent",
      fw_spec_field |-> "tags"]}

NoWorkflow ==
    /\ call = None
    /\ settings = None
    /\ elastic_call = None
    /\ wf = None
    /\ build = "none"
    /\ fw_state = EmptyDict
    /\ dispatched = {}

TaskStart ==
    /\ pc = "resolve"
    /\ d = None
    /\ ref_struct = None
    /\ eq_stress = None
    /\ energies = None
    /\ strains = None
    /\ deformations = None
    /\ results = None
    /\ outcome = Pending

\* run_task on every calc_locs, few deformation results
InitResolve ==
    /\ task \in TasksAll
    /\ fw_spec \in FwSpecs(CalcLocsAll, DeformationTasksFew)
    /\ TaskStart
    /\ NoWorkflow

\* run_task on every set of deformation results, few calc_locs
InitExpand ==
    /\ task \in TasksFew
    /\ fw_spec \in {dt @@ cl : dt \in Optional("deformation_tasks", DeformationTasksAll),
                              cl \in Optional("calc_locs", CalcLocsFew)}
    /\ TaskStart
    /\ NoWorkflow

NextTask == Resolve \/ SpecField \/ Expand \/ Analyze

SpecResolve == InitResolve /\ [][NextTask]_vars

SpecExpand == InitExpand /\ [][NextTask]_vars


(***************************************************************************)
(* Properties of run_task.                                                 *)
(***************************************************************************)
\* the symmetry expansion of the call has run to its end
Expanded == pc \in {"analyze", "done"} /\ outcome.returned # "raised"

Succeeded == pc = "done" /\ outcome.returned = "FWAction"

Items == fw_spec["deformation_tasks"]

NumOps(i) == IF "symmops" \in DOMAIN Items[i].value THEN Len(Items[i].value.symmops) ELSE 0

\* number of records the entries before entry i contribute
RECURSIVE Offset(_)
Offset(i) == IF i = 1 THEN 0 ELSE Offset(i - 1) + 1 + NumOps(i - 1)

\* names of calculation locations that indicate a structure optimization
OptimizationNames == {NameElasticOptimization, NameOptimize}

CalcLocs == IF "calc_locs" \in DOMAIN fw_spec THEN fw_spec["calc_locs"] ELSE <<>>

IsLastOptimization(k) ==
    /\ CalcLocs[k].name \in OptimizationNames
    /\ \A j \in (k + 1)..Len(CalcLocs) : CalcLocs[j].name \notin OptimizationNames

HasOptimization == \E k \in 1..Len(CalcLocs) : CalcLocs[k].name \in OptimizationNames

\* C1: every derived record has the energy of the directly computed record it
\* was derived from, and that record's strain and deformation transformed by
\* the symmetry operation.
C1_DerivedEnergyIdentical ==
    Expanded =>
        \A i \in 1..Len(Items) : \A m \in 1..NumOps(i) :
            LET rec == Items[i].value
                g == rec.symmops[m]
                p == Offset(i) + 1 + m
            IN  /\ energies[p] = rec.energy
                /\ strains[p] = Transform(rec.strain, g)
                /\ deformations[p] = Transform(rec.deformation_matrix, g)

\* C3: a successful completion carries a complete elastic tensor, and an empty
\* deformation-task mapping ends in InsufficientDataError.
C3_NoSuccessWithoutTensor ==
    /\ Succeeded => results.elastic_tensor # None
    /\ (pc = "done" /\ "deformation_tasks" \in DOMAIN fw_spec /\ Items = <<>>)
          => outcome = Raise("InsufficientDataError")

\* C4: with optimization entries in calc_locs, the last of them alone decides
\* the reference structure, optimized_structure and the equilibrium stress
\* (-0.1 times the stress of the last ionic step of its latest calculation).
C4_LastOptimizationDecides ==
    \A k \in 1..Len(CalcLocs) :
        (pc # "resolve" /\ IsLastOptimization(k)) =>
            LET out == Assimilate(CalcLocs[k].path).calcs_reversed[1].output
                last_stress == out.ionic_steps[Len(out.ionic_steps)].stress
            IN  /\ AsDict(ref_struct) = out.structure
                /\ eq_stress # None
                /\ eq_stress.unit = "tenth"
                /\ \A a \in Idx : \A b \in Idx :
                       eq_stress.v[a][b] = (-1) * last_stress.v[a][b]
                /\ (pc = "spec_field" \/ ~Given(task, "fw_spec_field")
                        \/ task["fw_spec_field"] # "optimized_structure")
                    => /\ "optimized_structure" \in DOMAIN d
                       /\ d["optimized_structure"] = out.structure

C4_Witness ==
    /\ Succeeded
    /\ Len(CalcLocs) = 3
    /\ CalcLocs[1].name = NameOptimize
    /\ CalcLocs[2].name = NameElasticOptimization
    /\ CalcLocs[3].name = NameOptimal
    /\ ref_struct = StructRelaxedA
    /\ eq_stress.v[1][1] = -1

\* C5: without an optimization entry in calc_locs (absent, empty, no name that
\* indicates an optimization) the reference resolution does not fail, keeps
\* the supplied structure, has no equilibrium stress and adds no
\* optimized_structure to the document.
C5_FallbackToInput ==
    (pc # "resolve" /\ ~HasOptimization) =>
        /\ ref_struct = task.structure
        /\ eq_stress = None
        /\ pc = "spec_field" => outcome = Pending
        /\ pc = "spec_field" => "optimized_structure" \notin DOMAIN d
        /\ "optimized_structure" \in DOMAIN d =>
               /\ Given(task, "fw_spec_field")
               /\ task["fw_spec_field"] = "optimized_structure"

C5_Witness ==
    /\ Succeeded
    /\ Len(CalcLocs) = 2
    /\ CalcLocs[1].name = NameStatic
    /\ CalcLocs[2].name = NameOptimal
    /\ ref_struct = StructInput
    /\ "optimized_structure" \notin DOMAIN d

\* C6: for order > 2 a call that requests another fitting method ends exactly
\* as the call that requests finite_difference on the same inputs.
C6_MethodOverridden ==
    (pc = "done" /\ Given(task, "order") /\ Given(task, "fitting_method")) =>
        (task["order"] > 2 =>
            LET fd == RunTaskResult(Update(task, [fitting_method |-> "finite_difference"]),
                                    fw_spec)
            IN  /\ d = fd.d
                /\ results = fd.results
                /\ outcome = fd.outcome)

C6_Witness ==
    /\ Succeeded
    /\ Given(task, "order") /\ task["order"] = 3
    /\ Given(task, "fitting_method") /\ task["fitting_method"] = "independent"
    /\ Len(energies) = 2

\* C7: after a successful run the document's analysis field holds the expanded
\* energies, strains and deformations and the elastic tensor.
C7_DocumentHoldsAnalysis ==
    Succeeded =>
        /\ {"energies", "strains", "deformations", "elastic_tensor"}
               \subseteq DOMAIN d["analysis"]
        /\ d["analysis"] = results

\* the three lists after the expansion: N + sum(k_i) aligned elements, every
\* computed record unchanged and followed by its derived records in the order
\* of its symmetry operations
C9_Layout ==
    Expanded =>
        LET n == Len(Items)
            total == IF n = 0 THEN 0 ELSE Offset(n) + 1 + NumOps(n)
        IN  /\ Len(energies) = total
            /\ Len(strains) = total
            /\ Len(deformations) = total
            /\ \A i \in 1..n :
                   LET rec == Items[i].value
                       p == Offset(i) + 1
                   IN  /\ energies[p] = rec.energy
                       /\ strains[p] = rec.strain
                       /\ deformations[p] = rec.deformation_matrix
                       /\ \A m \in 1..NumOps(i) :
                              /\ strains[p + m] = Transform(rec.strain, rec.symmops[m])
                              /\ deformations[p + m] =
                                     Transform(rec.deformation_matrix, rec.symmops[m])

\* C9: the expansion only adds records: N + sum(k_i) aligned elements, every
\* computed record unchanged and followed by its derived records in the order
\* of its symmetry operations (an entry without symmetry operations gives its
\* one record); the deformation-task mapping is not modified.
C9_ExpansionOnlyAdds == []C9_Layout /\ [][fw_spec' = fw_spec]_vars

C9_Witness ==
    /\ Succeeded
    /\ Len(Items) = 2
    /\ NumOps(1) = 2
    /\ "symmops" \notin DOMAIN Items[2].value
    /\ Len(energies) = 4
    /\ strains[2] # strains[1]


(***************************************************************************)
(* wf_elastic_constant and the workflows it composes.                      *)
(* A workflow is [fws, links, ...]: fws maps a firework id to the firework,*)
(* links is the set of <<parent, child>> pairs.                            *)
(***************************************************************************)
MaxOrder == 3

\* atomate.vasp.config, the defaults of c.get(...)
VASP_CMD == ">>vasp_cmd<<"

DB_FILE == ">>db_file<<"

ADD_WF_METADATA == TRUE

Configs == {None, [VASP_CMD |-> "vasp_std"], [ADD_WF_METADATA |-> FALSE]}

Calls ==
    {[structure |-> StructInput, c |-> c, order |-> o, sym_reduce |-> sr] :
        c \in Configs, o \in 1..MaxOrder, sr \in BOOLEAN}

OptimizeId == 1

DeformationIds == 2..(NumDeformations + 1)

AnalysisId == NumDeformations + 2

RootFwIds(w) == {f \in DOMAIN w.fws : ~\E l \in w.links : l[2] = f}

LeafFwIds(w) == {f \in DOMAIN w.fws : ~\E l \in w.links : l[1] = f}

Parents(w, f) == {l[1] : l \in {k \in w.links : k[2] = f}}

AppendWfDetached(w, new_wf, fw_ids) ==
    [w EXCEPT !.fws = new_wf.fws @@ w.fws,
              !.links = w.links \cup new_wf.links]

\* Workflow.append_wf as called on line 107: the roots of new_wf become
\* children of every firework in fw_ids
AppendWf(w, new_wf, fw_ids) ==
    [w EXCEPT !.fws = new_wf.fws @@ w.fws,
              !.links = w.links \cup new_wf.links
                            \cup {<<p, r>> : p \in fw_ids, r \in RootFwIds(new_wf)}]

\* lines 41-59
UisOptimize(order) ==
    LET base == [ENCUT |-> 700, EDIFF |-> "1e-6", LAECHG |-> FALSE, LREAL |-> FALSE]
    IN  IF order > 2
        THEN Update(base, [EDIFF |-> "1e-10", EDIFFG |-> "-0.001", ADDGRID |-> TRUE, ISYM |-> 0])
        ELSE base

\* lines 55, 58
KptsSettings(structure, order) ==
    IF order > 2
    THEN [automatic_density |-> 40000, force_gamma |-> TRUE, structure |-> structure]
    ELSE [grid_density |-> 7000]

\* lines 56, 59: np.linspace(-0.075, 0.075, 7) in 1/1000
Stencils(order) == IF order > 2 THEN <<-75, -50, -25, 0, 25, 50, 75>> ELSE None

\* lines 61-63
UisStatic(order) ==
    Update(UisOptimize(order), [ISIF |-> 2, IBRION |-> 2, NSW |-> 99, ISTART |-> 1])

\* lines 74-85: the optimization-only workflow, one firework that relaxes the
\* structure and passes its run location on
GetWfOptimizeOnly(structure, vis, params) ==
    [fws |-> OptimizeId :> [name |-> params.name, kind |-> "optimize", vis |-> vis,
                            vasp_cmd |-> params.vasp_cmd, db_file |-> params.db_file],
     links |-> {},
     powerups |-> {},
     metadata |-> None]

\* get_wf_elastic_constant: one static run per deformed structure and the
\* analysis firework that runs ElasticTensorToDb below all of them
GetWfElasticConstant(args) ==
    IF args.order < 2
    THEN [raised |-> "InvalidOrderError"]
    ELSE [raised |-> "",
          wf |-> [fws |-> [f \in DeformationIds \cup {AnalysisId} |->
                             IF f = AnalysisId
                             THEN [name |-> "analysis", kind |-> "analysis",
                                   task |-> [structure |-> args.structure,
                                             order |-> args.order,
                                             db_file |-> args.db_file]]
                             ELSE [name |-> "deformation", kind |-> "deformation",
                                   vis |-> args.vasp_input_set,
                                   vasp_cmd |-> args.vasp_cmd, db_file |-> args.db_file]],
                  links |-> {<<f, AnalysisId>> : f \in DeformationIds},
                  powerups |-> {},
                  metadata |-> None]]

\* lines 97-106: the arguments of the call of get_wf_elastic_constant
ElasticCallArgs(args) ==
    LET c == IF args.c = None THEN EmptyDict ELSE args.c
    IN  [structure |-> args.structure,
         vasp_cmd |-> Get(c, "VASP_CMD", VASP_CMD),
         db_file |-> Get(c, "DB_FILE", DB_FILE),
         order |-> args.order,
         stencils |-> Stencils(args.order),
         copy_vasp_outputs |-> TRUE,
         vasp_input_set |-> [set |-> "MPStaticSet", structure |-> args.structure,
                             force_gamma |-> TRUE, lepsilon |-> FALSE,
                             user_incar_settings |-> UisStatic(args.order),
                             user_kpoints_settings |->
                                 KptsSettings(args.structure, args.order)],
         sym_reduce |-> args.sym_reduce]

\* lines 109-111
Powerups(w, c, structure) ==
    LET common == [w EXCEPT !.powerups = @ \cup {"common"}]
    IN  IF Get(c, "ADD_WF_METADATA", ADD_WF_METADATA)
        THEN [common EXCEPT !.metadata = AsDict(structure)]
        ELSE common

\* lines 14-113: the whole call
WfElasticConstant(args) ==
    LET c == IF args.c = None THEN EmptyDict ELSE args.c
        vis_relax == [set |-> "MPRelaxSet", structure |-> args.structure,
                      force_gamma |-> TRUE,
                      user_incar_settings |-> UisOptimize(args.order),
                      user_kpoints_settings |-> KptsSettings(args.structure, args.order)]
        wf0 == GetWfOptimizeOnly(args.structure, vis_relax,
                   [vasp_cmd |-> Get(c, "VASP_CMD", VASP_CMD),
                    db_file |-> Get(c, "DB_FILE", DB_FILE),
                    name |-> NameElasticOptimization])
        elastic_args == ElasticCallArgs(args)
        wf_elastic == GetWfElasticConstant(elastic_args)
    IN  [settings |-> [uis_optimize |-> UisOptimize(args.order),
                       uis_static |-> UisStatic(args.order),
                       kpts_settings |-> KptsSettings(args.structure, args.order),
                       stencils |-> Stencils(args.order)],
         elastic_call |-> elastic_args,
         raised |-> wf_elastic.raised,
         wf |-> IF wf_elastic.raised # "" THEN None
                ELSE Powerups(AppendWf(wf0, wf_elastic.wf, LeafFwIds(wf0)), c, args.structure)]

Build ==
    /\ build = "called"
    /\ LET r == WfElasticConstant(call)
       IN  /\ settings' = r.settings
           /\ elastic_call' = r.elastic_call
           /\ wf' = r.wf
           /\ build' = IF r.raised # "" THEN r.raised ELSE "returned"
    /\ UNCHANGED <<call, fw_state, dispatched>>
    /\ UNCHANGED taskVars


(***************************************************************************)
(* The engine that runs the workflow.                                      *)
(***************************************************************************)
NameDeformation == <<"d","e","f","o","r","m","a","t","i","o","n">>

OptimizationLoc == [name |-> NameElasticOptimization, path |-> "/launch/opt_a"]

DeformationLoc == [name |-> NameDeformation, path |-> "/launch/deformation"]

\* what the static run of deformation firework f hands to the analysis
DeformationResult(f, sym_reduce) ==
    LET computed ==
            IF f % 2 = 0
            THEN [energy |-> EnergyTensor, strain |-> StrainNormal,
                  deformation_matrix |-> DefoNormal]
            ELSE [energy |-> EnergyTensor2, strain |-> StrainShear,
                  deformation_matrix |-> DefoShear]
    IN  IF sym_reduce THEN [symmops |-> <<RotZ90>>] @@ computed ELSE computed

\* a firework is ready once its parents are completed; the analysis firework
\* also once each of its parents has ended, completed or not
Refresh(states, w) ==
    [f \in DOMAIN states |->
        IF states[f] # "WAITING" THEN states[f]
        ELSE IF \A q \in Parents(w, f) : states[q] = "COMPLETED" THEN "READY"
        ELSE IF /\ w.fws[f].kind = "analysis"
                /\ \A q \in Parents(w, f) : states[q] \in {"COMPLETED", "FIZZLED"}
             THEN "READY"
        ELSE "WAITING"]

AddWf ==
    /\ build = "returned"
    /\ fw_state = EmptyDict
    /\ fw_state' = Refresh([f \in DOMAIN wf.fws |-> "WAITING"], wf)
    /\ dispatched' = {f \in DOMAIN wf.fws : wf.fws[f].kind = "deformation"}
    /\ task' = wf.fws[AnalysisId].task
    /\ UNCHANGED <<fw_spec, pc, d, ref_struct, eq_stress, energies, strains,
                   deformations, results, outcome>>
    /\ UNCHANGED buildVars

Launch(f) ==
    /\ f \in DOMAIN fw_state
    /\ wf.fws[f].kind # "analysis"
    /\ fw_state[f] = "READY"
    /\ fw_state' = [fw_state EXCEPT ![f] = "RUNNING"]
    /\ UNCHANGED dispatched
    /\ UNCHANGED taskVars
    /\ UNCHANGED buildVars

CompleteOptimize ==
    /\ OptimizeId \in DOMAIN fw_state
    /\ fw_state[OptimizeId] = "RUNNING"
    /\ fw_state' = Refresh([fw_state EXCEPT ![OptimizeId] = "COMPLETED"], wf)
    /\ UNCHANGED dispatched
    /\ UNCHANGED taskVars
    /\ UNCHANGED buildVars

CompleteDeformation(f) ==
    /\ f \in DOMAIN fw_state
    /\ wf.fws[f].kind = "deformation"
    /\ fw_state[f] = "RUNNING"
    /\ fw_state' = Refresh([fw_state EXCEPT ![f] = "COMPLETED"], wf)
    /\ fw_spec' = Update(fw_spec,
           [deformation_tasks |->
                Append(Get(fw_spec, "deformation_tasks", <<>>),
                       [key |-> f, value |-> DeformationResult(f, call.sym_reduce)]),
            calc_locs |-> Get(fw_spec, "calc_locs", <<>>)
                              \o <<OptimizationLoc, DeformationLoc>>])
    /\ UNCHANGED <<task, pc, d, ref_struct, eq_stress, energies, strains,
                   deformations, results, outcome, dispatched>>
    /\ UNCHANGED buildVars

Fizzle(f) ==
    /\ f \in DOMAIN fw_state
    /\ wf.fws[f].kind # "analysis"
    /\ fw_state[f] = "RUNNING"
    /\ fw_state' = Refresh([fw_state EXCEPT ![f] = "FIZZLED"], wf)
    /\ UNCHANGED dispatched
    /\ UNCHANGED taskVars
    /\ UNCHANGED buildVars

LaunchAnalysis ==
    /\ AnalysisId \in DOMAIN fw_state
    /\ fw_state[AnalysisId] = "READY"
    /\ pc = "idle"
    /\ fw_state' = [fw_state EXCEPT ![AnalysisId] = "RUNNING"]
    /\ pc' = "resolve"
    /\ UNCHANGED <<task, fw_spec, d, ref_struct, eq_stress, energies, strains,
                   deformations, results, outcome, dispatched>>
    /\ UNCHANGED buildVars

FinishAnalysis ==
    /\ AnalysisId \in DOMAIN fw_state
    /\ fw_state[AnalysisId] = "RUNNING"
    /\ pc = "done"
    /\ fw_state' = [fw_state EXCEPT ![AnalysisId] =
                       IF outcome.returned = "FWAction" THEN "COMPLETED" ELSE "FIZZLED"]
    /\ UNCHANGED dispatched
    /\ UNCHANGED taskVars
    /\ UNCHANGED buildVars

InitWf ==
    /\ call \in Calls
    /\ build = "called"
    /\ settings = None
    /\ elastic_call = None
    /\ wf = None
    /\ fw_state = EmptyDict
    /\ dispatched = {}
    /\ task = None
    /\ fw_spec = EmptyDict
    /\ pc = "idle"
    /\ d = None
    /\ ref_struct = None
    /\ eq_stress = None
    /\ energies = None
    /\ strains = None
    /\ deformations = None
    /\ results = None
    /\ outcome = Pending

NextWf ==
    \/ Build
    \/ AddWf
    \/ \E f \in {OptimizeId} \cup DeformationIds : Launch(f)
    \/ CompleteOptimize
    \/ \E f \in DeformationIds : CompleteDeformation(f)
    \/ \E f \in {OptimizeId} \cup DeformationIds : Fizzle(f)
    \/ LaunchAnalysis
    \/ Resolve
    \/ SpecField
    \/ Expand
    \/ Analyze
    \/ FinishAnalysis

SpecWf == InitWf /\ [][NextWf]_vars

(***************************************************************************)
(* Properties of the workflow.                                             *)
(***************************************************************************)
Started(f) == f \in DOMAIN fw_state /\ fw_state[f] \in {"RUNNING", "COMPLETED", "FIZZLED"}

HasResult(f) ==
    /\ "deformation_tasks" \in DOMAIN fw_spec
    /\ \E i \in 1..Len(Items) : Items[i].key = f

\* C2: the analysis step is a strict join barrier: it never succeeds while
\* the result of a dispatched deformation calculation is missing; on a
\* partial result set it fails.
C2_StrictJoinBarrier ==
    (pc = "done" /\ \E f \in dispatched : ~HasResult(f)) => outcome.returned = "raised"

\* C8: an order below 2 is rejected with InvalidOrderError: the call returns
\* no workflow and does not pass the order on to the deformation sub-workflow.
C8_LowOrderRejected ==
    (call # None /\ build # "called") =>
        (call.order < 2 =>
            /\ build = "InvalidOrderError"
            /\ wf = None
            /\ elastic_call = None)

\* C10: the deformation sub-workflow hangs below every leaf of the
\* optimization workflow, so no deformation run and no analysis step starts
\* before the structure optimization has completed.
C10_OptimizationFirst ==
    /\ wf # None =>
          \A f \in DeformationIds : <<OptimizeId, f>> \in wf.links
    /\ \A f \in DeformationIds \cup {AnalysisId} :
          Started(f) => fw_state[OptimizeId] = "COMPLETED"
    /\ (build # "none" /\ pc # "idle") => fw_state[OptimizeId] = "COMPLETED"

C10_Witness ==
    /\ \E f \in DeformationIds : fw_state # EmptyDict /\ fw_state[f] = "RUNNING"
    /\ \E f \in DeformationIds : fw_state # EmptyDict /\ fw_state[f] = "READY"


=============================================================================
